---- MODULE Spec2Model ----
(***************************************************************************)
(* MiniMon disk rolling-log feed (minimon_feed.py) as a state machine.     *)
(*                                                                         *)
(* One process: the __main__ block checks sys.argv, constructs a           *)
(* MiniMonFeed, and runs start_log / run_log / stop_log under two nested   *)
(* try/finally statements.  Every write goes through _write_log, which is  *)
(* modelled step by step (open, print, f.write, close of the with block)   *)
(* so that the wall clock may advance, a write may fail, and a signal may  *)
(* arrive between any two steps.                                           *)
(*                                                                         *)
(* Environment: SIGINT raises KeyboardInterrupt at the current point of    *)
(* the main thread (Python's default handler); SIGTERM has no handler in   *)
(* the program, so its default disposition ends the process at once.       *)
(* A failed open or f.write raises IOError and leaves the file unchanged.  *)
(***************************************************************************)
EXTENDS Integers, Sequences, FiniteSets, TLC

\* ------------------------------------------------------------------ bounds
MaxArgs == 2        \* command-line arguments after the script name: 0..MaxArgs
MaxPid == 1         \* process ids are 1..MaxPid
MaxIter == 2        \* INFO iterations started before the loop is held
MaxTicks == 1       \* one-second clock advances outside the sleep
MaxSignals == 2     \* signals delivered to the process
StartClock == 58    \* epoch second at process start

\* ------------------------------------------------------ program constants
SleepSeconds == 10

Pids == 1..MaxPid
\* the process id of the earlier run whose markers are still in the directory
\* (process ids are reused: it may be this run's pid too)
OldPid == 1
OutputDir == "/tmp/x"
ScriptName == "minimon_feed.py"

\* ------------------------------------------------------------- formatting
Digit(d) ==
    CASE d = 0 -> "0" [] d = 1 -> "1" [] d = 2 -> "2" [] d = 3 -> "3"
      [] d = 4 -> "4" [] d = 5 -> "5" [] d = 6 -> "6" [] d = 7 -> "7"
      [] d = 8 -> "8" [] d = 9 -> "9"

RECURSIVE Str(_)
\* f"{n}" for a non-negative integer
Str(n) == IF n < 10 THEN Digit(n) ELSE Str(n \div 10) \o Digit(n % 10)

\* %H, %M, %S, %d: two digits, zero padded
Pad2(n) == IF n < 10 THEN "0" \o Str(n) ELSE Str(n)

\* time.strftime('%Y-%m-%d %H:%M:%S') at epoch second t (UTC, t within January 1970)
Strftime(t) ==
    "1970-01-" \o Pad2(1 + (t \div 86400)) \o " " \o Pad2((t \div 3600) % 24)
        \o ":" \o Pad2((t \div 60) % 60) \o ":" \o Pad2(t % 60)

\* f"{time.strftime(...)}: {message}\n": the timestamp has a fixed width, so the
\* pair (timestamp, message) stands for the formatted text
FormatLine(t, message) == [ts |-> Strftime(t), text |-> message]

\* the extra newline print() appends after the text that already ends in one
BlankLine == [ts |-> "", text |-> ""]

UsageLine == [ts |-> "", text |-> "Usage: python minimon_feed.py <output_dir>"]

\* os.path.join(output_dir, name)
PathJoin(dir, name) == dir \o "/" \o name

StartLogPath(dir) == PathJoin(dir, "start.log")
\* variant: epoch and pid are not separated
RunLogPathNoSeparator(dir, epoch, pid) ==
    PathJoin(dir, Str(epoch) \o Str(pid) \o "_run.log")

RunLogPath(dir, epoch, pid) == PathJoin(dir, Str(epoch) \o "_" \o Str(pid) \o "_run.log")
StopLogPath(dir) == PathJoin(dir, "stop.log")

\* ---------------------------------------------------------------- messages
StartedMsg(pid) == Str(pid) \o ": Program started"
StartLoggingMsg(pid) == "Start logging: " \o Str(pid)
InfoMsg(n) == "INFO: Running log message " \o Str(n)
EndLoggingMsg(pid) == "End logging: " \o Str(pid)
StoppedMsg(pid) == "End logging " \o Str(pid) \o ": Program stopped"

VARIABLES
    argv,       \* sys.argv
    pc,         \* control point of __main__ / run_log
    wpc,        \* control point inside _write_log ("idle": not in a call)
    cur,        \* arguments of the running _write_log call
    i,          \* run_log's loop counter
    exc,        \* exception being propagated ("none": no exception)
    feed,       \* the MiniMonFeed object, NoFeed before construction
    tried,      \* whether __main__'s try statement (line 43) was entered
    runlog,     \* run_log's frame: "never" called, "active", "done"
    dir0,       \* the directory as the process found it
    files,      \* the directory: path -> lines of the file
    handle,     \* paths with an open file handle
    stdout,     \* lines emitted to standard output
    clock,      \* wall clock, epoch seconds
    ticks,      \* clock advances taken (bounded by MaxTicks)
    status,     \* process exit status, -1 while running
    calls,      \* history: [path, message] of every _write_log call
    attempts,   \* history: every open and f.write executed, with its outcome
    sigs,       \* history: signals delivered, with the point of delivery
    other       \* the Logger another invocation built in the same directory

vars == <<argv, pc, wpc, cur, i, exc, feed, tried, runlog, dir0, files, handle,
          stdout, clock, ticks, status, calls, attempts, sigs, other>>

NoFeed == [pid |-> 0]
NoFrame == [path |-> "", message |-> ""]
NoOther == [epoch |-> 0, feed |-> NoFeed]

\* lines left by earlier runs in the shared marker files
OldStartLine(p) == FormatLine(0, StartedMsg(p))
OldStopLine(p) == FormatLine(1, StoppedMsg(p))

ArgvSet == {<<ScriptName>>} \cup
           {<<ScriptName>> \o [k \in 1..n |-> OutputDir] : n \in 1..MaxArgs}

InitialDirs ==
    { <<>>,
      (StartLogPath(OutputDir) :> <<OldStartLine(OldPid)>>),
      (StartLogPath(OutputDir) :> <<OldStartLine(OldPid)>>)
        @@ (StopLogPath(OutputDir) :> <<OldStopLine(OldPid)>>) }

Init ==
    /\ argv \in ArgvSet
    /\ pc = "argcheck"
    /\ wpc = "idle"
    /\ cur = NoFrame
    /\ i = 0
    /\ exc = "none"
    /\ feed = NoFeed
    /\ tried = FALSE
    /\ runlog = "never"
    /\ dir0 \in InitialDirs
    /\ files = dir0
    /\ handle = {}
    /\ stdout = <<>>
    /\ clock = StartClock
    /\ ticks = 0
    /\ status = -1
    /\ calls = <<>>
    /\ attempts = <<>>
    /\ sigs = <<>>
    /\ other = NoOther

\* ------------------------------------------------------------ control flow
Running == pc \notin {"unwind", "exited", "killed"}

\* variant: __main__ without its try/finally, nothing catches above run_log
HandlerSkipsStopLog(p) ==
    CASE p \in {"run_start", "loop_write", "sleep", "incr"} -> "run_finally"
      [] OTHER -> "unwind"

\* variant: run_log without its try/finally, the loop's exceptions go to __main__
HandlerSkipsEndLogging(p) ==
    CASE p \in {"start_log", "run_log", "run_start", "loop_write", "sleep", "incr",
                "run_finally"} -> "stop_log"
      [] OTHER -> "unwind"

\* variant: an exception of the INFO write is caught in the loop, which goes on
HandlerRetriesInfo(p) ==
    CASE p = "loop_write" -> "loop_write"
      [] p \in {"run_start", "sleep", "incr"} -> "run_finally"
      [] p \in {"start_log", "run_log", "run_finally"} -> "stop_log"
      [] OTHER -> "unwind"

\* where an exception raised at control point p is caught: the finally of
\* run_log (line 29) covers lines 23-28, the finally of __main__ (line 46)
\* covers lines 44-45 (run_log's own finally included); elsewhere nothing does
Handler(p) ==
    CASE p \in {"run_start", "loop_write", "sleep", "incr"} -> "run_finally"
      [] p \in {"start_log", "run_log", "run_finally"} -> "stop_log"
      [] OTHER -> "unwind"

\* variant: start_log is called again when it returns
AfterReturnRestart(p) ==
    CASE p = "start_log" -> "start_log"
      [] p = "run_start" -> "loop_write"
      [] p = "loop_write" -> "sleep"
      [] p = "run_finally" -> "stop_log"
      [] p = "stop_log" -> "unwind"

\* variant: the loop is left after its first write
AfterReturnLeavesLoop(p) ==
    CASE p = "start_log" -> "run_log"
      [] p = "run_start" -> "loop_write"
      [] p = "loop_write" -> "run_finally"
      [] p = "run_finally" -> "stop_log"
      [] p = "stop_log" -> "unwind"

\* where control continues when the _write_log call made at p returns
AfterReturn(p) ==
    CASE p = "start_log" -> "run_log"
      [] p = "run_start" -> "loop_write"
      [] p = "loop_write" -> "sleep"
      [] p = "run_finally" -> "stop_log"
      [] p = "stop_log" -> "unwind"

\* run_log's frame is left when control reaches __main__'s finally
RunlogAfter(p) == IF runlog = "active" /\ p = "stop_log" THEN "done" ELSE runlog

\* variant: the counter is not advanced
NextIndexStuck(n) == n

\* i + 1 at line 28
NextIndex(n) == n + 1

\* exit status the interpreter gives for the exception that ended __main__:
\* sys.exit(1) and an uncaught IOError give 1; an uncaught KeyboardInterrupt
\* gives 1 (before Python 3.8) or death by SIGINT, seen as 130 (3.8 and later)
ExitStatus(e) ==
    CASE e = "none" -> {0}
      [] e = "KeyboardInterrupt" -> {1, 130}
      [] OTHER -> {1}

\* variant: the file is opened without a with block, an exception leaves it open
RaiseLeaksHandle(e) ==
    /\ exc' = e
    /\ pc' = Handler(pc)
    /\ runlog' = RunlogAfter(Handler(pc))
    /\ wpc' = "idle"
    /\ cur' = NoFrame
    /\ handle' = handle

\* an exception e is raised at the current point: the with block of a running
\* _write_log releases its handle, and control moves to the enclosing finally
Raise(e) ==
    /\ exc' = e
    /\ pc' = Handler(pc)
    /\ runlog' = RunlogAfter(Handler(pc))
    /\ wpc' = "idle"
    /\ cur' = NoFrame
    /\ handle' = {}

\* variant: the line is printed before the file is opened
StepAfterPrintFirst(w) ==
    CASE w = "idle" -> "print"
      [] w = "print" -> "open"
      [] w = "open" -> "write"
      [] w = "write" -> "close"

\* order of the steps of _write_log: open (line 14), print (line 15),
\* f.write (line 16), end of the with block
StepAfter(w) ==
    CASE w = "idle" -> "open"
      [] w = "open" -> "print"
      [] w = "print" -> "write"
      [] w = "write" -> "close"

\* self._write_log(path, message) is called
WriteLogCall(path, message) ==
    /\ wpc = "idle"
    /\ wpc' = StepAfter("idle")
    /\ cur' = [path |-> path, message |-> message]
    /\ calls' = Append(calls, [path |-> path, message |-> message])
    /\ UNCHANGED <<argv, pc, i, exc, feed, runlog, files, handle, stdout, clock,
                   ticks, status, attempts, sigs, tried, dir0, other>>

\* ---------------------------------------------------------------- __main__
\* variant: only a missing argument is rejected
ArgsOkAtLeast(a) == Len(a) >= 2

\* line 36: the negation of len(sys.argv) != 2
ArgsOk(a) == Len(a) = 2

\* line 36: if len(sys.argv) != 2
CheckArgs ==
    /\ pc = "argcheck"
    /\ pc' = IF ~ArgsOk(argv) THEN "usage" ELSE "construct"
    /\ UNCHANGED <<argv, wpc, cur, i, exc, feed, runlog, files, handle, stdout,
                   clock, ticks, status, calls, attempts, sigs, tried, dir0,
                   other>>

\* line 37: print("Usage: ...")
Usage ==
    /\ pc = "usage"
    /\ stdout' = Append(stdout, UsageLine)
    /\ pc' = "sysexit"
    /\ UNCHANGED <<argv, wpc, cur, i, exc, feed, runlog, files, handle, clock,
                   ticks, status, calls, attempts, sigs, tried, dir0, other>>

\* line 38: sys.exit(1) raises SystemExit
SysExit ==
    /\ pc = "sysexit"
    /\ Raise("SystemExit")
    /\ UNCHANGED <<argv, i, feed, files, stdout, clock, ticks, status, calls,
                   attempts, sigs, tried, dir0, other>>

\* MiniMonFeed.__init__ (lines 6-11) in a process with id p at epoch second t
NewFeed(dir, t, p) ==
    [output_dir |-> dir,
     pid |-> p,
     start_log_path |-> StartLogPath(dir),
     run_log_path |-> RunLogPath(dir, t, p),
     stop_log_path |-> StopLogPath(dir)]

\* lines 40-41: feed = MiniMonFeed(sys.argv[1]), the process id being in P
ConstructWith(P) ==
    /\ pc = "construct"
    /\ \E p \in P : feed' = NewFeed(argv[2], clock, p)
    /\ pc' = "try"
    /\ UNCHANGED <<argv, wpc, cur, i, exc, runlog, files, handle, stdout, clock,
                   ticks, status, calls, attempts, sigs, tried, dir0, other>>

Construct == ConstructWith(Pids)

\* line 43: the try statement of __main__ is entered
EnterTry ==
    /\ pc = "try"
    /\ pc' = "start_log"
    /\ tried' = TRUE
    /\ UNCHANGED <<argv, wpc, cur, i, exc, feed, runlog, files, handle, stdout,
                   clock, ticks, status, calls, attempts, sigs, dir0, other>>

\* the interpreter ends with the exception that left __main__
Exit ==
    /\ pc = "unwind"
    /\ pc' = "exited"
    /\ status' \in ExitStatus(exc)
    /\ UNCHANGED <<argv, wpc, cur, i, exc, feed, runlog, files, handle, stdout,
                   clock, ticks, calls, attempts, sigs, tried, dir0, other>>

\* ------------------------------------------------------------- MiniMonFeed
\* lines 18-19, called from line 44
StartLog ==
    /\ pc = "start_log"
    /\ WriteLogCall(feed.start_log_path, StartedMsg(feed.pid))

\* line 22: the try statement of run_log is entered
EnterRunLog ==
    /\ pc = "run_log"
    /\ wpc = "idle"
    /\ pc' = "run_start"
    /\ UNCHANGED <<argv, wpc, cur, i, exc, feed, runlog, files, handle, stdout,
                   clock, ticks, status, calls, attempts, sigs, tried, dir0,
                   other>>

\* variant: the run-log path is derived again from the clock at every write
RunLogTargetRecomputed == RunLogPath(feed.output_dir, clock, feed.pid)

\* self.run_log_path at lines 23, 26 and 30
RunLogTarget == feed.run_log_path

\* line 23
RunLogStart ==
    /\ pc = "run_start"
    /\ WriteLogCall(RunLogTarget, StartLoggingMsg(feed.pid))

\* line 26 (the loop is held once MaxIter iterations were started)
RunLogInfo ==
    /\ pc = "loop_write"
    /\ i < MaxIter
    /\ WriteLogCall(RunLogTarget, InfoMsg(i + 1))

\* line 27: time.sleep(10) returns
Sleep ==
    /\ pc = "sleep"
    /\ wpc = "idle"
    /\ clock' = clock + SleepSeconds
    /\ pc' = "incr"
    /\ UNCHANGED <<argv, wpc, cur, i, exc, feed, runlog, files, handle, stdout,
                   ticks, status, calls, attempts, sigs, tried, dir0, other>>

\* line 28: i += 1
Incr ==
    /\ pc = "incr"
    /\ i' = NextIndex(i)
    /\ pc' = "loop_write"
    /\ UNCHANGED <<argv, wpc, cur, exc, feed, runlog, files, handle, stdout,
                   clock, ticks, status, calls, attempts, sigs, tried, dir0,
                   other>>

\* line 30, in run_log's finally
RunLogEnd ==
    /\ pc = "run_finally"
    /\ WriteLogCall(RunLogTarget, EndLoggingMsg(feed.pid))

\* lines 32-33, called from line 47 in __main__'s finally
StopLog ==
    /\ pc = "stop_log"
    /\ WriteLogCall(feed.stop_log_path, StoppedMsg(feed.pid))

\* -------------------------------------------------------------- _write_log
\* history entry for a step of the running _write_log call
Attempt(op, ok) == [op |-> op, path |-> cur.path, message |-> cur.message, ok |-> ok]

\* variant: mode 'w', the file is truncated
OpenTruncate(path) == <<>>

\* content of the file at path once open(path, 'a') returned: what it held,
\* or nothing when the file had to be created
OpenAppend(path) == IF path \in DOMAIN files THEN files[path] ELSE <<>>

\* line 14: open(path, 'a', buffering=1) creates the file when it is missing
OpenOk ==
    /\ wpc = "open"
    /\ files' = (cur.path :> OpenAppend(cur.path)) @@ files
    /\ handle' = handle \cup {cur.path}
    /\ attempts' = Append(attempts, Attempt("open", TRUE))
    /\ wpc' = StepAfter("open")
    /\ UNCHANGED <<argv, pc, cur, i, exc, feed, runlog, stdout, clock, ticks,
                   status, calls, sigs, tried, dir0, other>>

\* line 14: open fails (directory missing, permission denied)
OpenFail ==
    /\ wpc = "open"
    /\ attempts' = Append(attempts, Attempt("open", FALSE))
    /\ Raise("IOError")
    /\ UNCHANGED <<argv, i, feed, files, stdout, clock, ticks, status, calls,
                   sigs, tried, dir0, other>>

\* line 15: print(f"{time.strftime(...)}: {message}\n")
PrintLine ==
    /\ wpc = "print"
    /\ stdout' = stdout \o <<FormatLine(clock, cur.message), BlankLine>>
    /\ wpc' = StepAfter("print")
    /\ UNCHANGED <<argv, pc, cur, i, exc, feed, runlog, files, handle, clock,
                   ticks, status, calls, attempts, sigs, tried, dir0, other>>

\* line 16: f.write(f"{time.strftime(...)}: {message}\n"), line buffered
WriteOk ==
    /\ wpc = "write"
    /\ files' = [files EXCEPT ![cur.path] = Append(@, FormatLine(clock, cur.message))]
    /\ attempts' = Append(attempts, Attempt("write", TRUE))
    /\ wpc' = StepAfter("write")
    /\ UNCHANGED <<argv, pc, cur, i, exc, feed, runlog, handle, stdout, clock,
                   ticks, status, calls, sigs, tried, dir0, other>>

\* line 16: f.write fails (disk full)
WriteFail ==
    /\ wpc = "write"
    /\ attempts' = Append(attempts, Attempt("write", FALSE))
    /\ Raise("IOError")
    /\ UNCHANGED <<argv, i, feed, files, stdout, clock, ticks, status, calls,
                   sigs, tried, dir0, other>>

\* the with block ends and _write_log returns to its caller; the return into
\* run_log's body sets i = 0 (line 24), the return from run_log's finally
\* lets the pending exception continue to __main__'s finally
WriteLogReturn ==
    /\ wpc = "close"
    /\ handle' = {}
    /\ wpc' = "idle"
    /\ cur' = NoFrame
    /\ pc' = AfterReturn(pc)
    /\ i' = IF pc = "run_start" THEN 0 ELSE i
    /\ runlog' = IF pc = "start_log" THEN "active" ELSE RunlogAfter(AfterReturn(pc))
    /\ UNCHANGED <<argv, exc, feed, files, stdout, clock, ticks, status, calls,
                   attempts, sigs, tried, dir0, other>>

\* ------------------------------------------------------------- environment
\* the wall clock advances by a second; taken only where the next step reads
\* the clock (time.time() at line 10, time.strftime at lines 15 and 16), an
\* advance anywhere else is seen by the program as an advance there
Tick ==
    /\ Running
    /\ pc = "construct" \/ wpc \in {"print", "write"}
    /\ ticks < MaxTicks
    /\ clock' = clock + 1
    /\ ticks' = ticks + 1
    /\ UNCHANGED <<argv, pc, wpc, cur, i, exc, feed, runlog, files, handle,
                   stdout, status, calls, attempts, sigs, tried, dir0, other>>

\* SIGINT: Python's default handler raises KeyboardInterrupt in the main thread
Interrupt ==
    /\ Running
    /\ Len(sigs) < MaxSignals
    /\ sigs' = Append(sigs, [sig |-> "SIGINT", pc |-> pc, wpc |-> wpc])
    /\ Raise("KeyboardInterrupt")
    /\ UNCHANGED <<argv, i, feed, files, stdout, clock, ticks, status, calls,
                   attempts, tried, dir0, other>>

\* SIGTERM: no handler is installed, the process is ended without unwinding
\* (no finally clause runs; the system closes the open handle)
Terminate ==
    /\ Running
    /\ Len(sigs) < MaxSignals
    /\ sigs' = Append(sigs, [sig |-> "SIGTERM", pc |-> pc, wpc |-> wpc])
    /\ pc' = "killed"
    /\ status' = 128 + 15
    /\ wpc' = "idle"
    /\ cur' = NoFrame
    /\ handle' = {}
    /\ UNCHANGED <<argv, i, exc, feed, runlog, files, stdout, clock, ticks,
                   calls, attempts, tried, dir0, other>>

Next ==
    \/ CheckArgs \/ Usage \/ SysExit \/ Construct \/ EnterTry \/ Exit
    \/ StartLog \/ EnterRunLog \/ RunLogStart \/ RunLogInfo \/ Sleep \/ Incr
    \/ RunLogEnd \/ StopLog
    \/ OpenOk \/ OpenFail \/ PrintLine \/ WriteOk \/ WriteFail \/ WriteLogReturn
    \/ Tick \/ Interrupt \/ Terminate

Spec == Init /\ [][Next]_vars

\* ---------------------------------------------- two invocations, one directory
\* MiniMonFeed.__init__ alone, for two invocations started on the same output
\* directory at epoch seconds and with process ids drawn from these ranges
MaxPathEpoch == 12
MaxPathPid == 12
PathPids == 1..MaxPathPid

PathInit ==
    /\ argv = <<ScriptName, OutputDir>>
    /\ pc = "construct"
    /\ wpc = "idle"
    /\ cur = NoFrame
    /\ i = 0
    /\ exc = "none"
    /\ feed = NoFeed
    /\ tried = FALSE
    /\ runlog = "never"
    /\ dir0 = <<>>
    /\ files = dir0
    /\ handle = {}
    /\ stdout = <<>>
    /\ clock \in 0..MaxPathEpoch
    /\ ticks = 0
    /\ status = -1
    /\ calls = <<>>
    /\ attempts = <<>>
    /\ sigs = <<>>
    /\ other = NoOther

\* this invocation builds its Logger at the epoch second the clock shows
PathConstruct == ConstructWith(PathPids)

\* the other invocation builds its Logger: MiniMonFeed.__init__ (lines 6-11)
\* on the same directory, in process q at epoch second e
OtherConstruct ==
    /\ other = NoOther
    /\ \E e \in 0..MaxPathEpoch, q \in PathPids :
         other' = [epoch |-> e, feed |-> NewFeed(argv[2], e, q)]
    /\ UNCHANGED <<argv, pc, wpc, cur, i, exc, feed, tried, runlog, dir0, files,
                   handle, stdout, clock, ticks, status, calls, attempts, sigs>>

PathNext == PathConstruct \/ OtherConstruct

PathSpec == PathInit /\ [][PathNext]_vars

\* ------------------------------------------------- no external cancellation
\* the steps the interpreter takes by itself: every statement of the program
\* and every step of _write_log that succeeds
ProgramStep ==
    \/ CheckArgs \/ Usage \/ SysExit \/ Construct \/ EnterTry \/ Exit
    \/ StartLog \/ EnterRunLog \/ RunLogStart \/ RunLogInfo \/ Sleep \/ Incr
    \/ RunLogEnd \/ StopLog
    \/ OpenOk \/ PrintLine \/ WriteOk \/ WriteLogReturn

\* the program with no signal delivered: its own steps, the I/O errors of open
\* and f.write, the wall clock
LiveNext == ProgramStep \/ OpenFail \/ WriteFail \/ Tick

\* a process that is not signalled keeps executing: the interpreter takes its
\* next step, open and f.write return, time.sleep(10) returns
LiveSpec == Init /\ [][LiveNext]_vars /\ WF_vars(ProgramStep)

\* ============================================================== properties
Constructed == feed.pid # 0

FileAt(path) == IF path \in DOMAIN files THEN files[path] ELSE <<>>
File0(path) == IF path \in DOMAIN dir0 THEN dir0[path] ELSE <<>>

StartLines == IF Constructed THEN FileAt(feed.start_log_path) ELSE <<>>
RunLines == IF Constructed THEN FileAt(feed.run_log_path) ELSE <<>>
StopLines == IF Constructed THEN FileAt(feed.stop_log_path) ELSE <<>>

Texts(lines) == [k \in 1..Len(lines) |-> lines[k].text]

\* the texts an INFO line can carry, and the messages of each pid, tabulated
InfoTextSet == {InfoMsg(n) : n \in 0..(MaxIter + 2)}
IsInfoText(t) == t \in InfoTextSet

StartedTab == [p \in 0..MaxPid |-> StartedMsg(p)]
StartLoggingTab == [p \in 0..MaxPid |-> StartLoggingMsg(p)]
EndLoggingTab == [p \in 0..MaxPid |-> EndLoggingMsg(p)]
StoppedTab == [p \in 0..MaxPid |-> StoppedMsg(p)]

\* this process's messages
MyStarted == StartedTab[feed.pid]
MyStartLogging == StartLoggingTab[feed.pid]
MyEndLogging == EndLoggingTab[feed.pid]
MyStopped == StoppedTab[feed.pid]

\* _write_log calls made with this message / on this path
CallsWith(message) == Cardinality({k \in 1..Len(calls) : calls[k].message = message})
CallsOn(path) == Cardinality({k \in 1..Len(calls) : calls[k].path = path})

StartCalls == IF Constructed THEN CallsWith(MyStarted) ELSE 0
EndCalls == IF Constructed THEN CallsWith(MyEndLogging) ELSE 0
StopCalls == IF Constructed THEN CallsWith(MyStopped) ELSE 0
RunCalls == IF Constructed THEN CallsOn(feed.run_log_path) ELSE 0

\* f.write of this message completed / an open or f.write for it failed
Wrote(message) ==
    \E k \in 1..Len(attempts) :
        attempts[k].op = "write" /\ attempts[k].ok /\ attempts[k].message = message
Failed(message) ==
    \E k \in 1..Len(attempts) : ~attempts[k].ok /\ attempts[k].message = message
FailedOn(path) ==
    \E k \in 1..Len(attempts) : ~attempts[k].ok /\ attempts[k].path = path
IOFailed == \E k \in 1..Len(attempts) : ~attempts[k].ok
InfoFailed == \E k \in 1..Len(attempts) : ~attempts[k].ok /\ IsInfoText(attempts[k].message)

\* number of loop iterations whose write completed
InfoDone ==
    Cardinality({k \in 1..Len(attempts) :
        attempts[k].op = "write" /\ attempts[k].ok /\ IsInfoText(attempts[k].message)})

\* control points of the run loop in state RUNNING (lines 23-28)
RunningPoints == {"run_start", "loop_write", "sleep", "incr"}

\* a signal arrived at statement p before p made its call
PreemptedAt(p) == \E k \in 1..Len(sigs) : sigs[k].pc = p /\ sigs[k].wpc = "idle"

\* positions in calls of the INFO calls
InfoCallIdx == {k \in 1..Len(calls) : IsInfoText(calls[k].message)}

\* ------------------------------------------------------------------- C1
\* the run log reads Start logging, INFO 1..k, End logging
Bracketed(k) ==
    Texts(RunLines) = <<MyStartLogging>> \o [n \in 1..k |-> InfoMsg(n)]
                          \o <<MyEndLogging>>

\* every signal was a KeyboardInterrupt delivered inside run_log during one of
\* its writes or during the sleep
CancelledInRunLog ==
    /\ sigs # <<>>
    /\ \A k \in 1..Len(sigs) :
         /\ sigs[k].sig = "SIGINT"
         /\ sigs[k].pc \in RunningPoints \cup {"run_finally"}
         /\ sigs[k].wpc # "idle" \/ sigs[k].pc = "sleep"

\* C1: once run_log has terminated after a cancellation delivered at any point
\* of run_log (no write failing), the run log holds exactly one Start logging
\* line, then the k INFO lines whose write completed, then exactly one
\* End logging line.
C1_CancelledRunLogBracketed ==
    (runlog = "done" /\ ~IOFailed /\ CancelledInRunLog) => Bracketed(InfoDone)

\* ------------------------------------------------------------------- C2
\* the stop-marker call is the last _write_log call, and every open or write
\* that follows a step of the stop-marker call is on stop.log too
NothingAfterStop ==
    /\ \A k \in 1..Len(calls) :
         calls[k].path = feed.stop_log_path => k = Len(calls)
    /\ \A k \in 1..(Len(attempts) - 1) :
         attempts[k].path = feed.stop_log_path
             => attempts[k + 1].path = feed.stop_log_path

C3_CancelWhileRunningDrains ==
    (/\ pc \in {"exited", "killed"}
     /\ Len(sigs) = 1
     /\ sigs[1].pc \in RunningPoints
     /\ ~IOFailed)
        => (EndCalls = 1 /\ StopCalls = 1)

\* ------------------------------------------------------------------- C4
\* the last step recorded is the failed open or f.write of the End logging call
EndJustFailed ==
    /\ attempts # <<>>
    /\ ~attempts[Len(attempts)].ok
    /\ attempts[Len(attempts)].message = MyEndLogging
    /\ calls[Len(calls)].message = MyEndLogging

\* C4: once a write of the loop body has failed, control is out of the loop and
\* no further INFO call is made; the End logging call is made at most once, and
\* exactly once by the time run_log has terminated (unless a signal hit the
\* finally clause before it made the call); when that cleanup write fails in
\* turn, run_log is left with its IOError propagating.
C4_LoopErrorDrains ==
    /\ EndCalls <= 1
    /\ InfoFailed =>
         /\ pc \notin RunningPoints
         /\ \A k \in InfoCallIdx :
              (\A j \in InfoCallIdx : j <= k) => Failed(calls[k].message)
    /\ (InfoFailed /\ runlog = "done" /\ ~PreemptedAt("run_finally")) => EndCalls = 1
    /\ (Constructed /\ EndJustFailed /\ pc = "stop_log")
           => (exc = "IOError" /\ runlog = "done")

\* an INFO write failed, the End logging write was attempted and failed too
C4_Witness ==
    /\ InfoFailed
    /\ EndCalls = 1
    /\ Failed(MyEndLogging)
    /\ runlog = "done"
    /\ exc = "IOError"
    /\ sigs = <<>>

\* ------------------------------------------------------------------- C5
\* the sequences INFO 1, ..., INFO m
InfoPrefixes == {[n \in 1..m |-> InfoMsg(n)] : m \in 0..MaxIter}

\* the INFO lines of the run log, in file order
InfoTexts == SelectSeq(Texts(RunLines), IsInfoText)

\* C5: at every state the INFO lines present in the run log carry exactly the
\* indices 1, 2, ..., m, in that order, for some m >= 0.
C5_InfoIndicesSequential == InfoTexts \in InfoPrefixes

\* two INFO lines are in the run log
C5_Witness == Len(InfoTexts) >= 2

\* ------------------------------------------------------------------- C6
\* C6: with zero arguments or with two or more, no Logger is constructed, no
\* _write_log call, open or write is made, the directory stays as it was, and
\* the process exits with a non-zero status: status 1 after printing the usage
\* message when it exits by its own sys.exit(1).
C6_UsageError ==
    Len(argv) # 2 =>
        /\ ~Constructed
        /\ calls = <<>> /\ attempts = <<>>
        /\ files = dir0
        /\ pc = "exited" => status # 0
        /\ (pc = "exited" /\ sigs = <<>>) => (status = 1 /\ stdout = <<UsageLine>>)

\* two arguments: usage printed, exit status 1
C6_Witness ==
    /\ Len(argv) = 3
    /\ pc = "exited"
    /\ status = 1
    /\ stdout = <<UsageLine>>

\* ------------------------------------------------------------------- C7
\* C7: a process cancelled by an interrupt during the run loop whose two
\* cleanup writes (End logging, stop marker) succeeded exits with status 0.
C7_CancelledExitsZero ==
    (/\ pc = "exited"
     /\ Len(sigs) = 1
     /\ sigs[1].sig = "SIGINT"
     /\ sigs[1].pc \in RunningPoints
     /\ Wrote(MyEndLogging)
     /\ Wrote(MyStopped))
        => status = 0

\* ------------------------------------------------------------------- C8
\* C8 as stated: in an execution without signals that ended after a failed open
\* or write, a _write_log call was made on each of the three log files.
C8_FailureIsolatedAllTargets ==
    (pc = "exited" /\ sigs = <<>> /\ IOFailed) =>
        /\ CallsOn(feed.start_log_path) >= 1
        /\ CallsOn(feed.run_log_path) >= 1
        /\ CallsOn(feed.stop_log_path) >= 1

\* C8 (amended): a failure writing to the start log or to the run log does not
\* prevent the stop-marker write from being attempted (unless a signal hits
\* the finally clause before it makes the call), and a
\* run-log failure comes after the start-marker write was attempted; but a
\* failure of the start-marker write prevents every run-log write, and nothing
\* is attempted after a failed stop-marker write.
C8_FailureStillStops ==
    Constructed =>
        /\ FailedOn(feed.start_log_path) => RunCalls = 0
        /\ FailedOn(feed.run_log_path) => StartCalls = 1
        /\ ( /\ FailedOn(feed.start_log_path) \/ FailedOn(feed.run_log_path)
             /\ pc \in {"unwind", "exited"}
             /\ ~PreemptedAt("stop_log") ) => StopCalls = 1
        /\ FailedOn(feed.stop_log_path) =>
             /\ calls[Len(calls)].path = feed.stop_log_path
             /\ attempts[Len(attempts)].path = feed.stop_log_path
             /\ ~attempts[Len(attempts)].ok

\* the start-marker write failed, no run-log write was attempted, the stop
\* marker was written
C8_Witness ==
    /\ Constructed
    /\ pc = "exited"
    /\ sigs = <<>>
    /\ FailedOn(feed.start_log_path)
    /\ RunCalls = 0
    /\ Wrote(MyStopped)

\* ------------------------------------------------------------------- C9
\* C9: start_log is invoked at most once, and exactly once as soon as control
\* has passed line 44 (unless a signal arrived there before the call was
\* made); its call is the first _write_log call and precedes every call on the
\* run log; start.log keeps what it held and gains exactly one
\* '<pid>: Program started' line when the write succeeded, none otherwise.
C9_StartLogOnce ==
    Constructed =>
        /\ StartCalls <= 1
        /\ (tried /\ ~(pc = "start_log" /\ wpc = "idle") /\ ~PreemptedAt("start_log"))
               => StartCalls = 1
        /\ (calls # <<>> /\ ~PreemptedAt("start_log"))
               => calls[1] = [path |-> feed.start_log_path,
                              message |-> MyStarted]
        /\ RunCalls >= 1 => StartCalls = 1
        /\ \A k \in 1..Len(calls) :
               calls[k].path = feed.run_log_path
                   => \E j \in 1..(k - 1) : calls[j].path = feed.start_log_path
        /\ Len(StartLines) = Len(File0(feed.start_log_path))
                                + (IF Wrote(MyStarted) THEN 1 ELSE 0)
        /\ SubSeq(StartLines, 1, Len(File0(feed.start_log_path)))
               = File0(feed.start_log_path)
        /\ Wrote(MyStarted)
               => StartLines[Len(StartLines)].text = MyStarted

\* the start marker was written after the marker an earlier run with the same
\* pid left, and the run log has been written to
C9_Witness ==
    /\ Constructed
    /\ Wrote(MyStarted)
    /\ File0(feed.start_log_path) = <<OldStartLine(feed.pid)>>
    /\ Len(StartLines) = 2
    /\ RunCalls >= 2

\* ------------------------------------------------------------------ C10
\* C10: every line this process has written to a log file has also been
\* emitted to standard output as the same line: same timestamp, same message.
C10_StdoutSameLine ==
    \A path \in DOMAIN files :
        \A k \in (Len(File0(path)) + 1)..Len(files[path]) :
            \E j \in 1..Len(stdout) : stdout[j] = files[path][k]

\* ------------------------------------------------------------------- C11
\* sequence s is a prefix of sequence t
IsPrefix(s, t) == Len(s) <= Len(t) /\ \A k \in 1..Len(s) : s[k] = t[k]

\* C11: every log file is append-only: in every step, every file that exists
\* still exists afterwards and its content before the step is a prefix of its
\* content after the step (nothing is truncated, overwritten or reordered).
C11_AppendOnly ==
    [][\A path \in DOMAIN files :
           /\ path \in DOMAIN files'
           /\ IsPrefix(files[path], files'[path])]_vars

\* start.log held a line of an earlier run and this run's line was added to it
C11_Witness ==
    /\ Constructed
    /\ File0(feed.start_log_path) # <<>>
    /\ Len(StartLines) = Len(File0(feed.start_log_path)) + 1
    /\ IsPrefix(File0(feed.start_log_path), StartLines)
    /\ Wrote(MyStarted)

\* ------------------------------------------------------------------- C12
\* both invocations have built their Logger
BothConstructed == Constructed /\ other # NoOther

\* C12: two Loggers built on the same output directory have the same run-log
\* path only if they were built at the same epoch second in processes with the
\* same id; hence two invocations with distinct process ids have distinct run
\* logs, while their start.log paths are equal and their stop.log paths are
\* equal.
C12_RunLogPathUnique ==
    BothConstructed =>
        /\ feed.run_log_path = other.feed.run_log_path
               => (clock = other.epoch /\ feed.pid = other.feed.pid)
        /\ feed.pid # other.feed.pid
               => feed.run_log_path # other.feed.run_log_path
        /\ feed.start_log_path = other.feed.start_log_path
        /\ feed.stop_log_path = other.feed.stop_log_path

\* two invocations in the same second with distinct process ids
C12_Witness ==
    /\ BothConstructed
    /\ clock = other.epoch
    /\ feed.pid # other.feed.pid
    /\ feed.run_log_path # other.feed.run_log_path
    /\ feed.start_log_path = other.feed.start_log_path

\* ------------------------------------------------------------------- C13
\* steps of _write_log at which the file of the call is open
HandleSteps == {"print", "write", "close"}

\* C13: a file handle is open only inside one _write_log call, between its open
\* and its end, and it is the handle of that call's file; no handle is open
\* once the call has ended (by return, by a failed write or by a signal), in
\* particular none during the sleep between iterations nor after the program
\* has ended.
C13_HandleScoped ==
    /\ handle # {} => (wpc \in HandleSteps /\ handle = {cur.path})
    /\ wpc \in HandleSteps => handle = {cur.path}
    /\ wpc \in {"idle", "open"} => handle = {}
    /\ pc \in {"sleep", "unwind", "exited", "killed"} => handle = {}

\* one call returned, one ended by a failed write and one by a
\* KeyboardInterrupt that arrived while its file was open
C13_Witness ==
    /\ Wrote(MyStarted)
    /\ \E k \in 1..Len(attempts) : attempts[k].op = "write" /\ ~attempts[k].ok
    /\ \E k \in 1..Len(sigs) :
         sigs[k].sig = "SIGINT" /\ sigs[k].wpc \in HandleSteps
    /\ handle = {}
    /\ pc = "exited"

\* ------------------------------------------------------------------- C14
\* the INFO messages, tabulated
InfoTab == [n \in 1..(MaxIter + 2) |-> InfoMsg(n)]

\* control points reached only by leaving the run loop
AfterLoopPoints == {"run_finally", "stop_log", "unwind", "exited", "killed"}

\* C14: with no signal delivered and no open or write failing, a program started
\* with a directory argument never leaves the run loop once it entered it: it
\* never reaches run_log's finally clause, never calls _write_log for the
\* End logging line nor for the stop marker, and for every n from 1 to the
\* number of iterations modelled the line INFO: Running log message n is
\* eventually written.
C14_LoopNeverEnds ==
    ([]~IOFailed) =>
        /\ [](Constructed =>
                /\ pc \notin AfterLoopPoints
                /\ EndCalls = 0 /\ StopCalls = 0
                /\ ~Wrote(MyEndLogging) /\ ~Wrote(MyStopped))
        /\ \A n \in 1..MaxIter : <>(Len(argv) # 2 \/ Wrote(InfoTab[n]))

\* the last iteration modelled wrote its line and the loop is still running
C14_Witness ==
    /\ Wrote(InfoTab[MaxIter])
    /\ ~IOFailed
    /\ sigs = <<>>
    /\ runlog = "active"
    /\ pc \in RunningPoints
    /\ EndCalls = 0 /\ StopCalls = 0

\* ------------------------------------------------------------------- C15
\* the messages run_log writes
IsRunText(t) == t = MyStartLogging \/ IsInfoText(t) \/ t = MyEndLogging

\* C15: once the Logger is constructed no step changes its pid or any of its
\* three paths; every _write_log call is made on one of these paths, the
\* run_log messages on the run-log path fixed at construction whatever the
\* clock shows by then, and a step changes no file but the one of the call
\* in progress.
C15_PathsFixed ==
    [][/\ Constructed => feed' = feed
       /\ Len(calls') > Len(calls) =>
            LET c == calls'[Len(calls')] IN
                /\ IsRunText(c.message) <=> c.path = feed.run_log_path
                /\ c.message = MyStarted <=> c.path = feed.start_log_path
                /\ c.message = MyStopped <=> c.path = feed.stop_log_path
                /\ cur'.path = c.path
       /\ \A path \in DOMAIN files' :
            (path \notin DOMAIN files \/ files'[path] # FileAt(path))
                => path = cur.path]_vars

\* the run log holds three lines of this process, the last one written in a
\* later second than the first
C15_Witness ==
    /\ Constructed
    /\ Len(RunLines) = 3
    /\ RunLines[1].text = MyStartLogging
    /\ RunLines[3].text = InfoTab[2]
    /\ RunLines[1].ts # RunLines[3].ts
    /\ clock >= StartClock + SleepSeconds
    /\ DOMAIN files \subseteq
         DOMAIN dir0 \cup {feed.start_log_path, feed.run_log_path}

\* ------------------------------------------------------------------- C16
\* positions in attempts of the steps made for INFO lines
InfoAttemptIdx == {k \in 1..Len(attempts) : IsInfoText(attempts[k].message)}

\* C16: no write is retried: no two _write_log calls of a process carry the
\* same message, open and f.write are each attempted at most once for a
\* message, and once an open or f.write for an INFO line has failed no later
\* open or write is for an INFO line and no further INFO call is made.
C16_NoRetry ==
    /\ Cardinality({calls[k].message : k \in 1..Len(calls)}) = Len(calls)
    /\ Cardinality({<<attempts[k].op, attempts[k].message>> :
                        k \in 1..Len(attempts)}) = Len(attempts)
    /\ \A k \in InfoAttemptIdx :
         ~attempts[k].ok =>
            /\ \A j \in InfoAttemptIdx : j <= k
            /\ \A j \in InfoCallIdx :
                 \E n \in InfoAttemptIdx :
                    attempts[n].op = "open"
                        /\ attempts[n].message = calls[j].message
            /\ pc \notin RunningPoints

\* the write of an INFO line failed and the program ran to its end: one
\* End logging call and one stop-marker call, no second call for the line
C16_Witness ==
    /\ \E k \in InfoAttemptIdx : attempts[k].op = "write" /\ ~attempts[k].ok
    /\ pc = "exited"
    /\ EndCalls = 1
    /\ StopCalls = 1
    /\ Cardinality(InfoCallIdx) >= 1

\* ------------------------------------------------------------------- C17
\* start_log was left by an I/O error or by a signal delivered during it
StartLogAborted ==
    /\ Constructed
    /\ \/ Failed(MyStarted)
       \/ \E k \in 1..Len(sigs) : sigs[k].pc = "start_log"

\* the process has ended
Ended == pc \in {"exited", "killed"}

\* C17: if start_log fails or is cancelled, run_log is never entered: no
\* _write_log call is made on the run log and no run log file is created;
\* stop_log is still called, exactly once by the end of the execution.
C17_StartAbortedStillStops ==
    StartLogAborted =>
        /\ runlog = "never"
        /\ RunCalls = 0
        /\ feed.run_log_path \notin DOMAIN files
        /\ StopCalls <= 1
        /\ Ended => StopCalls = 1

\* ------------------------------------------------------------------- C18
\* messages printed to standard output, written to a file, and of the calls
\* whose open succeeded
PrintedTexts == {stdout[k].text : k \in 1..Len(stdout)} \ {BlankLine.text}
WrittenTexts ==
    {attempts[k].message :
        k \in {j \in 1..Len(attempts) : attempts[j].op = "write" /\ attempts[j].ok}}
OpenedTexts ==
    {attempts[k].message :
        k \in {j \in 1..Len(attempts) : attempts[j].op = "open" /\ attempts[j].ok}}

\* C18: in _write_log the print comes after the open and before the file
\* write: every message written to a log file has been printed before, every
\* message printed belongs to a call whose open succeeded and is printed once,
\* a call whose open failed has printed nothing, and the call in progress has
\* its file open when it prints and has printed when it writes.
C18_PrintBetweenOpenAndWrite ==
    Constructed =>
        /\ WrittenTexts \subseteq PrintedTexts
        /\ PrintedTexts \subseteq OpenedTexts
        /\ Len(stdout) = 2 * Cardinality(PrintedTexts)
        /\ \A k \in 1..Len(attempts) :
             (attempts[k].op = "open" /\ ~attempts[k].ok)
                 => attempts[k].message \notin PrintedTexts
        /\ wpc = "open" => cur.message \notin PrintedTexts
        /\ wpc = "print" =>
             (cur.message \in OpenedTexts \ PrintedTexts /\ handle = {cur.path})
        /\ wpc \in {"write", "close"} => cur.message \in PrintedTexts
        /\ wpc = "write" => cur.message \notin WrittenTexts

\* the start marker was opened, printed and written; the open of the next
\* call failed and nothing was printed for it
C18_Witness ==
    /\ Constructed
    /\ MyStarted \in WrittenTexts \cap PrintedTexts
    /\ \E k \in 1..Len(attempts) :
         /\ attempts[k].op = "open" /\ ~attempts[k].ok
         /\ attempts[k].message = MyStartLogging
         /\ attempts[k].message \notin PrintedTexts
    /\ Len(stdout) = 2

====
